---- MODULE Spec2Model ----
(***************************************************************************)
(* Model of caption_parsers.py: the three caption extractors               *)
(* (XLSXCaptionParser, CSVCaptionParser, JSONCaptionParser) and the        *)
(* directory walk of collect_all_caption_data.                             *)
(*                                                                         *)
(* Text is a sequence of one-character strings, so that split, replace,    *)
(* strip, lower, endswith and "in" are computed character by character.    *)
(* An Optional[str] is a sequence of length 0 (None) or 1 (the value).     *)
(* A dict is a function whose DOMAIN is its key set.                       *)
(***************************************************************************)
EXTENDS Integers, Sequences, FiniteSets, TLC

\* ------------------------------------------------------------------------
\* Bounds of the model
\* ------------------------------------------------------------------------
MaxFiles == 2

MaxRows == 2

\* ------------------------------------------------------------------------
\* Python values
\* ------------------------------------------------------------------------
None == <<>>

Some(x) == <<x>>

EmptyDict == <<>>

\* Python truthiness of an Optional[str]: not None and not "".
Truthy(o) == o # None /\ o[1] # <<>>

\* ------------------------------------------------------------------------
\* str methods
\* ------------------------------------------------------------------------
LowerChar(c) ==
  CASE c = "A" -> "a" [] c = "B" -> "b" [] c = "C" -> "c" [] c = "D" -> "d"
    [] c = "E" -> "e" [] c = "F" -> "f" [] c = "G" -> "g" [] c = "H" -> "h"
    [] c = "I" -> "i" [] c = "J" -> "j" [] c = "K" -> "k" [] c = "L" -> "l"
    [] c = "M" -> "m" [] c = "N" -> "n" [] c = "O" -> "o" [] c = "P" -> "p"
    [] c = "Q" -> "q" [] c = "R" -> "r" [] c = "S" -> "s" [] c = "T" -> "t"
    [] c = "U" -> "u" [] c = "V" -> "v" [] c = "W" -> "w" [] c = "X" -> "x"
    [] c = "Y" -> "y" [] c = "Z" -> "z" [] OTHER -> c

\* str.lower()
Lower(s) == [i \in 1..Len(s) |-> LowerChar(s[i])]

\* sub occurs in s starting at position i
OccursAt(s, sub, i) ==
  /\ i >= 1
  /\ i + Len(sub) - 1 <= Len(s)
  /\ \A j \in 1..Len(sub) : s[i + j - 1] = sub[j]

\* str.endswith(suf)
EndsWith(s, suf) == OccursAt(s, suf, Len(s) - Len(suf) + 1)

\* str.startswith(pre)
StartsWith(s, pre) == OccursAt(s, pre, 1)

\* sub in s
Contains(s, sub) == \E i \in 1..(Len(s) + 1) : OccursAt(s, sub, i)

\* s.split(sep) for a non-empty separator: the list of parts, left to right
RECURSIVE Split(_, _)
Split(s, sep) ==
  IF ~Contains(s, sep) THEN <<s>>
  ELSE LET i == CHOOSE k \in 1..Len(s) :
                   OccursAt(s, sep, k) /\ \A m \in 1..(k - 1) : ~OccursAt(s, sep, m)
       IN <<SubSeq(s, 1, i - 1)>> \o Split(SubSeq(s, i + Len(sep), Len(s)), sep)

\* s.replace(old, new): every non-overlapping occurrence, left to right
RECURSIVE Replace(_, _, _)
Replace(s, old, new) ==
  IF s = <<>> THEN <<>>
  ELSE IF OccursAt(s, old, 1)
       THEN new \o Replace(SubSeq(s, Len(old) + 1, Len(s)), old, new)
       ELSE <<s[1]>> \o Replace(Tail(s), old, new)

IsSpace(c) == c \in {" ", "\t", "\n"}

RECURSIVE LStrip(_)
LStrip(s) == IF s # <<>> /\ IsSpace(s[1]) THEN LStrip(Tail(s)) ELSE s

RECURSIVE RStrip(_)
RStrip(s) ==
  IF s # <<>> /\ IsSpace(s[Len(s)]) THEN RStrip(SubSeq(s, 1, Len(s) - 1)) ELSE s

\* str.strip()
Strip(s) == RStrip(LStrip(s))

IsDigit(c) == c \in {"0", "1", "2", "3", "4", "5", "6", "7", "8", "9"}

DigitVal(c) ==
  CASE c = "0" -> 0 [] c = "1" -> 1 [] c = "2" -> 2 [] c = "3" -> 3
    [] c = "4" -> 4 [] c = "5" -> 5 [] c = "6" -> 6 [] c = "7" -> 7
    [] c = "8" -> 8 [] c = "9" -> 9

RECURSIVE DigitsVal(_)
DigitsVal(s) ==
  IF s = <<>> THEN 0
  ELSE 10 * DigitsVal(SubSeq(s, 1, Len(s) - 1)) + DigitVal(s[Len(s)])

\* int(text): surrounding whitespace, an optional sign, decimal digits;
\* None stands for ValueError.
ParseInt(s) ==
  LET t    == Strip(s)
      body == IF t # <<>> /\ t[1] \in {"-", "+"} THEN Tail(t) ELSE t
  IN IF body = <<>> \/ \E i \in 1..Len(body) : ~IsDigit(body[i])
     THEN None
     ELSE Some(IF t[1] = "-" THEN 0 - DigitsVal(body) ELSE DigitsVal(body))

\* ------------------------------------------------------------------------
\* os.path and pathlib
\* ------------------------------------------------------------------------
Sep == <<"/">>

\* os.path.join(a, b)
Join(a, b) ==
  IF StartsWith(b, Sep) THEN b
  ELSE IF a = <<>> \/ EndsWith(a, Sep) THEN a \o b
  ELSE a \o Sep \o b

\* Path(p) drops trailing separators
RECURSIVE PurePath(_)
PurePath(p) ==
  IF Len(p) > 1 /\ EndsWith(p, Sep) THEN PurePath(SubSeq(p, 1, Len(p) - 1)) ELSE p

\* os.path.exists(p) on the file system disk (a set of paths)
OsPathExists(disk, p) == p \in disk

\* Path(p).exists()
PathExists(disk, p) == PurePath(p) \in disk

\* ------------------------------------------------------------------------
\* dict operations
\* ------------------------------------------------------------------------
\* d.setdefault(k, []).append(c)
SetDefaultAppend(d, k, c) ==
  [x \in DOMAIN d \cup {k} |->
     IF x = k THEN (IF k \in DOMAIN d THEN Append(d[k], c) ELSE <<c>>)
     ELSE d[x]]

\* d[k] = v
SetItem(d, k, v) == [x \in DOMAIN d \cup {k} |-> IF x = k THEN v ELSE d[x]]

DictUpdateConcat(a, b) ==
  [k \in DOMAIN a \cup DOMAIN b |->
     IF k \in DOMAIN a /\ k \in DOMAIN b THEN a[k] \o b[k]
     ELSE IF k \in DOMAIN b THEN b[k] ELSE a[k]]

\* a.update(b)
DictUpdate(a, b) ==
  [k \in DOMAIN a \cup DOMAIN b |-> IF k \in DOMAIN b THEN b[k] ELSE a[k]]

\* ------------------------------------------------------------------------
\* Exceptions
\* ------------------------------------------------------------------------
\* The exception classes raised while a file is read; each derives from
\* Exception.
ExceptionClasses ==
  {"BadZipFile", "FileNotFoundError", "ParseError", "JSONDecodeError",
   "UnicodeDecodeError", "AttributeError"}

XLSXCatchesOnlyBadZip(exc) == exc = "BadZipFile"

\* XLSXCaptionParser.extract: except zipfile.BadZipFile / except Exception
XLSXCatches(exc) == exc = "BadZipFile" \/ exc \in ExceptionClasses

\* CSVCaptionParser.extract: except FileNotFoundError / except Exception
CSVCatches(exc) == exc = "FileNotFoundError" \/ exc \in ExceptionClasses

\* JSONCaptionParser.extract: except json.JSONDecodeError / except Exception
JSONCatches(exc) == exc = "JSONDecodeError" \/ exc \in ExceptionClasses

\* ------------------------------------------------------------------------
\* XLSXCaptionParser
\* ------------------------------------------------------------------------
\* A workbook's sharedStrings.xml is a sequence of <si> entries; an entry is
\* the sequence of the texts of its <t> elements (one for a plain string,
\* several for rich-text runs), a text being None when the element is empty.
\* A worksheet row is a sequence of child elements [tag, t, v]: t is the
\* Optional type attribute, v the Optional text of the value child.

RECURSIVE FlattenSi(_)
FlattenSi(table) ==
  IF table = <<>> THEN <<>> ELSE Head(table) \o FlattenSi(Tail(table))

IsSomeText(o) == o # None

\* shared_strings = [t.text for t in tree.findall(".//t") if t.text is not None]
LoadSharedStrings(table) ==
  LET kept == SelectSeq(FlattenSi(table), IsSomeText)
  IN [i \in 1..Len(kept) |-> kept[i][1]]

IsCellElement(el) == EndsWith(el.tag, <<"c">>)

\* cells = [el for el in row if el.tag.endswith("c")]
RowCells(row) == SelectSeq(row, IsCellElement)

\* get_cell_value(cell)
GetCellValue(cell, shared_strings) ==
  IF Truthy(cell.v)
  THEN IF cell.t = Some(<<"s">>)
       THEN LET idx == ParseInt(cell.v[1])
            IN IF idx = None THEN None
               ELSE IF 0 <= idx[1] /\ idx[1] < Len(shared_strings)
                    THEN Some(shared_strings[idx[1] + 1])
                    ELSE None
       ELSE cell.v
  ELSE None

Placeholder == <<"*", "M", "G", "*">>

CanonicalPrefix == <<"I", "M", "G", "_">>

Hash == <<"#">>

XLSXNormalizeNameLastHash(raw) ==
  LET parts == Split(raw, Hash)
      cut   == IF Contains(raw, Hash) THEN SubSeq(raw, 1, Len(raw) - Len(parts[Len(parts)]) - 1)
               ELSE raw
  IN Replace(cut, Placeholder, CanonicalPrefix)

\* if "#" in name: name = name.split("#")[0]; name = name.replace("*MG*", "IMG_")
XLSXNormalizeName(raw) ==
  LET cut == IF Contains(raw, Hash) THEN Split(raw, Hash)[1] ELSE raw
  IN Replace(cut, Placeholder, CanonicalPrefix)

\* os.path.join(images_path, name) if images_path else name
ImgPath(images_path, name) ==
  IF images_path # <<>> THEN Join(images_path, name) ELSE name

StartTag == <<"<", "s", "t", "a", "r", "t", ">">>

EndTag == <<"<", "e", "n", "d", ">">>

\* f"<start> {caption_val.strip()} <end>"
XLSXFormat(caption) == StartTag \o <<" ">> \o Strip(caption) \o <<" ">> \o EndTag

\* img_name_val after the row body's normalisation (None when the row is
\* skipped before it, or the resolved name is missing)
XLSXRowName(row, shared_strings) ==
  LET cells == RowCells(row)
  IN IF Len(cells) < 2 THEN None
     ELSE LET img_name_val == GetCellValue(cells[1], shared_strings)
          IN IF Truthy(img_name_val) THEN Some(XLSXNormalizeName(img_name_val[1]))
             ELSE None

XLSXRowCaption(row, shared_strings) ==
  LET cells == RowCells(row)
  IN IF Len(cells) < 2 THEN None ELSE GetCellValue(cells[2], shared_strings)

XLSXRowStepNoCaptionCheck(caption_mapping, row, shared_strings, images_path, validate, disk) ==
  LET name        == XLSXRowName(row, shared_strings)
      caption_val == XLSXRowCaption(row, shared_strings)
  IN IF name = None THEN caption_mapping
     ELSE LET img_path == ImgPath(images_path, name[1])
          IN IF ~validate \/ PathExists(disk, img_path)
             THEN IF caption_val # None
                  THEN SetDefaultAppend(caption_mapping, img_path, XLSXFormat(caption_val[1]))
                  ELSE SetItem(caption_mapping, img_path, <<>>)
             ELSE caption_mapping

XLSXRowStepReplace(caption_mapping, row, shared_strings, images_path, validate, disk) ==
  LET name        == XLSXRowName(row, shared_strings)
      caption_val == XLSXRowCaption(row, shared_strings)
  IN IF name = None THEN caption_mapping
     ELSE LET img_path == ImgPath(images_path, name[1])
          IN IF ~validate \/ PathExists(disk, img_path)
             THEN IF Truthy(caption_val)
                  THEN SetItem(caption_mapping, img_path, <<XLSXFormat(caption_val[1])>>)
                  ELSE caption_mapping
             ELSE caption_mapping

\* One iteration of the row loop of XLSXCaptionParser.extract
XLSXRowStep(caption_mapping, row, shared_strings, images_path, validate, disk) ==
  LET name        == XLSXRowName(row, shared_strings)
      caption_val == XLSXRowCaption(row, shared_strings)
  IN IF name = None THEN caption_mapping
     ELSE LET img_path == ImgPath(images_path, name[1])
          IN IF ~validate \/ PathExists(disk, img_path)
             THEN IF Truthy(caption_val)
                  THEN SetDefaultAppend(caption_mapping, img_path, XLSXFormat(caption_val[1]))
                  ELSE caption_mapping
             ELSE caption_mapping

\* start_row = 1 if self.has_header and len(rows) > 0 else 0
StartRow(has_header, rows) == IF has_header /\ Len(rows) > 0 THEN 1 ELSE 0

\* ------------------------------------------------------------------------
\* CSVCaptionParser
\* ------------------------------------------------------------------------
\* A CSV file is a header (the sequence of column names) and rows (each the
\* sequence of its field texts). csv.DictReader pairs the fields with the
\* column names; a column the row is too short for reads as None.

CaptionId == <<"c", "a", "p", "t", "i", "o", "n", "_", "i", "d">>

BengaliCaption == <<"b", "e", "n", "g", "a", "l", "i", "_", "c", "a", "p", "t", "i", "o", "n">>

\* row.get(column) on the dict csv.DictReader builds for the row
DictReaderGet(header, fields, column) ==
  LET cols == {i \in 1..Len(header) : header[i] = column}
  IN IF cols = {} THEN None
     ELSE LET i == CHOOSE c \in cols : \A d \in cols : d <= c
          IN IF i <= Len(fields) THEN Some(fields[i]) ELSE None

\* f" <start> {str(caption_bn).strip()} <end> "
CSVFormat(caption) ==
  <<" ">> \o StartTag \o <<" ">> \o Strip(caption) \o <<" ">> \o EndTag \o <<" ">>

CSVNormalizeName(raw) == IF Contains(raw, Hash) THEN Split(raw, Hash)[1] ELSE raw

\* img_name after the row body's normalisation (None when the row is skipped)
CSVRowName(header, fields) ==
  LET img_name   == DictReaderGet(header, fields, CaptionId)
      caption_bn == DictReaderGet(header, fields, BengaliCaption)
  IN IF Truthy(img_name) /\ Truthy(caption_bn)
     THEN Some(CSVNormalizeName(img_name[1]))
     ELSE None

\* One iteration of the row loop of CSVCaptionParser.extract
CSVRowStep(caption_mapping, header, fields, images_path, validate, disk) ==
  LET name       == CSVRowName(header, fields)
      caption_bn == DictReaderGet(header, fields, BengaliCaption)
  IN IF name = None THEN caption_mapping
     ELSE LET img_path == ImgPath(images_path, name[1])
          IN IF validate /\ ~PathExists(disk, img_path) THEN caption_mapping
             ELSE SetDefaultAppend(caption_mapping, img_path, CSVFormat(caption_bn[1]))

\* ------------------------------------------------------------------------
\* JSONCaptionParser
\* ------------------------------------------------------------------------
\* A JSON value is [ty, s, l]: ty is "str", "int", "null" or "list"; s is the
\* text of a string or the decimal text of a number (what str() gives); l is
\* the items of a list. An item of the root list is [isdict, keys, filename,
\* caption]: keys is the set of the object's keys among the two looked up.

\* not isinstance(item, dict) or 'filename' not in item or 'caption' not in item
JSONItemMalformed(item) ==
  ~item.isdict \/ "filename" \notin item.keys \/ "caption" \notin item.keys

\* item['filename'].strip() raises AttributeError unless the value is a str
JSONItemRaises(item) == ~JSONItemMalformed(item) /\ item.filename.ty # "str"

\* "<start>" + str(caption).strip() + " "
JSONFormat(caption) == StartTag \o Strip(caption.s) \o <<" ">>

IsNotNull(v) == v.ty # "null"

\* formatted_captions: the caption field as a list, its non-null items formatted
JSONFormattedCaptions(item) ==
  LET raw_captions == IF item.caption.ty = "list" THEN item.caption.l
                      ELSE <<item.caption>>
      kept == SelectSeq(raw_captions, IsNotNull)
  IN [i \in 1..Len(kept) |-> JSONFormat(kept[i])]

\* img_name_abs = os.path.join(images_path, item['filename'].strip())
JSONItemPath(item, images_path) == Join(images_path, Strip(item.filename.s))

JSONItemStepValidateOnly(caption_mapping, item, images_path, validate, disk) ==
  IF JSONItemMalformed(item) THEN caption_mapping
  ELSE LET img_name_abs       == JSONItemPath(item, images_path)
           formatted_captions == JSONFormattedCaptions(item)
       IN IF validate /\ PathExists(disk, img_name_abs)
          THEN IF formatted_captions # <<>>
               THEN SetItem(caption_mapping, img_name_abs, formatted_captions)
               ELSE caption_mapping
          ELSE caption_mapping

JSONItemStepAppend(caption_mapping, item, images_path, validate, disk) ==
  IF JSONItemMalformed(item) THEN caption_mapping
  ELSE LET img_name_abs       == JSONItemPath(item, images_path)
           formatted_captions == JSONFormattedCaptions(item)
       IN IF ~validate \/ PathExists(disk, img_name_abs)
          THEN IF formatted_captions # <<>>
               THEN SetItem(caption_mapping, img_name_abs,
                            (IF img_name_abs \in DOMAIN caption_mapping
                             THEN caption_mapping[img_name_abs] ELSE <<>>)
                              \o formatted_captions)
               ELSE caption_mapping
          ELSE caption_mapping

\* One iteration of the item loop of JSONCaptionParser.extract, for an item
\* that does not raise
JSONItemStep(caption_mapping, item, images_path, validate, disk) ==
  IF JSONItemMalformed(item) THEN caption_mapping
  ELSE LET img_name_abs       == JSONItemPath(item, images_path)
           formatted_captions == JSONFormattedCaptions(item)
       IN IF ~validate \/ PathExists(disk, img_name_abs)
          THEN IF formatted_captions # <<>>
               THEN SetItem(caption_mapping, img_name_abs, formatted_captions)
               ELSE caption_mapping
          ELSE caption_mapping

\* ------------------------------------------------------------------------
\* collect_all_caption_data: classification and image directories
\* ------------------------------------------------------------------------
ExtXlsx == <<".", "x", "l", "s", "x">>

ExtCsv == <<".", "c", "s", "v">>

ExtJson == <<".", "j", "s", "o", "n">>

WordCaptioning == <<"c", "a", "p", "t", "i", "o", "n", "i", "n", "g">>

WordBanCap == <<"b", "a", "n", "-", "c", "a", "p">>

WordCaptions == <<"c", "a", "p", "t", "i", "o", "n", "s">>

BanglaViewName ==
  <<"b", "a", "n", "g", "l", "a", "v", "i", "e", "w", "_", "d", "a", "t", "a", "s", "e", "t",
    ".", "x", "l", "s", "x">>

DirImage == <<"i", "m", "a", "g", "e">>

DirImages == <<"i", "m", "a", "g", "e", "s">>

DirFlickr8k == <<"F", "l", "i", "c", "k", "r", " ", "8", "k", " ", "D", "a", "t", "a", "s", "e", "t">>

DirFlickr8kImages == <<"I", "m", "a", "g", "e", "s">>

DirFlickr30k == <<"f", "l", "i", "c", "k", "r", "3", "0", "k", "_", "i", "m", "a", "g", "e", "s">>

DirBanglaLekha == <<"r", "x", "x", "c", "h", "9", "v", "w", "5", "9", ".", "2">>

RouteByExtension(lower_file) ==
  IF EndsWith(lower_file, ExtXlsx) THEN "xlsx"
  ELSE IF EndsWith(lower_file, ExtCsv) THEN "csv"
  ELSE IF EndsWith(lower_file, ExtJson) THEN "json"
  ELSE "none"

\* The if/elif chain over lower_file: the route taken, first match first
Route(lower_file) ==
  IF EndsWith(lower_file, ExtXlsx) /\ Contains(lower_file, WordCaptioning) THEN "xlsx"
  ELSE IF EndsWith(lower_file, ExtCsv) /\ Contains(lower_file, WordBanCap) THEN "csv"
  ELSE IF lower_file = BanglaViewName THEN "banglaview"
  ELSE IF EndsWith(lower_file, ExtJson) /\ Contains(lower_file, WordCaptions) THEN "json"
  ELSE "none"

BanglaViewDir(base_dir) == Join(Join(base_dir, DirFlickr30k), DirFlickr30k)

\* The image directory each route passes to its parser
ImgDir(route, base_dir, root, disk) ==
  CASE route = "xlsx" ->
         IF OsPathExists(disk, Join(root, DirImage)) THEN Join(root, DirImage) ELSE root
    [] route = "csv" ->
         IF OsPathExists(disk, Join(Join(base_dir, DirFlickr8k), DirFlickr8kImages))
         THEN Join(Join(base_dir, DirFlickr8k), DirFlickr8kImages)
         ELSE base_dir
    [] route = "banglaview" -> BanglaViewDir(base_dir)
    [] route = "json" ->
         IF OsPathExists(disk, Join(root, DirImages)) THEN Join(root, DirImages)
         ELSE Join(Join(base_dir, DirBanglaLekha), DirImages)
    [] OTHER -> <<>>

BanglaViewSkippedNever(base_dir, disk) == FALSE

\* The fixed-name route skips the file when its image directory is absent
BanglaViewSkipped(base_dir, disk) == ~OsPathExists(disk, BanglaViewDir(base_dir))

\* ------------------------------------------------------------------------
\* Inputs: directory trees, file contents, file systems
\* ------------------------------------------------------------------------
\* A walked file is [root, name, content]; content is
\* [kind, status, shared, header, rows]: status is "ok", the exception
\* reading the file raises, "nosheet" (no xl/worksheets/sheet1.xml) or
\* "notlist" (the JSON root is not a list).

BaseDir == <<"b">>

SubDir == Join(BaseDir, <<"d">>)

Roots == {BaseDir, SubDir}

Content(kind, status, shared, header, rows) ==
  [kind |-> kind, status |-> status, shared |-> shared, header |-> header, rows |-> rows]

File(root, name, content) == [root |-> root, name |-> name, content |-> content]

\* worksheet elements
Cell(t, v) == [tag |-> <<"c">>, t |-> t, v |-> v]

Inline(text) == Cell(None, Some(text))

SharedRef(text) == Cell(Some(<<"s">>), Some(text))

NoValue == Cell(None, None)

ExtElement == [tag |-> <<"e", "x", "t">>, t |-> None, v |-> None]

\* JSON values
JStr(text) == [ty |-> "str", s |-> text, l |-> <<>>]

JInt(text) == [ty |-> "int", s |-> text, l |-> <<>>]

JNull == [ty |-> "null", s |-> <<"N", "o", "n", "e">>, l |-> <<>>]

JList(items) == [ty |-> "list", s |-> <<>>, l |-> items]

JObject(filename, caption) ==
  [isdict |-> TRUE, keys |-> {"filename", "caption"}, filename |-> filename, caption |-> caption]

JObjectNoCaption(filename) ==
  [isdict |-> TRUE, keys |-> {"filename"}, filename |-> filename, caption |-> JNull]

JNotObject == [isdict |-> FALSE, keys |-> {}, filename |-> JNull, caption |-> JNull]

\* file names
NameCaptioning == <<"C", "a", "p", "t", "i", "o", "n", "i", "n", "g", ".", "X", "L", "S", "X">>

NameCaptioning2 == <<"c", "a", "p", "t", "i", "o", "n", "i", "n", "g", "2", ".", "x", "l", "s", "x">>

NameBanCap == <<"B", "a", "n", "-", "C", "a", "p", ".", "c", "s", "v">>

NameBanglaView ==
  <<"B", "a", "n", "g", "l", "a", "V", "i", "e", "w", "_", "D", "a", "t", "a", "s", "e", "t",
    ".", "x", "l", "s", "x">>

NameCaptionsJson == <<"C", "a", "p", "t", "i", "o", "n", "s", ".", "j", "s", "o", "n">>

NameNotes == <<"n", "o", "t", "e", "s", ".", "t", "x", "t">>

NameDataXlsx == <<"d", "a", "t", "a", ".", "x", "l", "s", "x">>

NameCaptionsCsv == <<"c", "a", "p", "t", "i", "o", "n", "s", ".", "c", "s", "v">>

\* image names and caption texts
ImgA == <<"a">>

ImgB == <<"b">>

ImgAHash1 == <<"a", "#", "1">>

ImgAHash2 == <<"a", "#", "2", "#", "3">>

ImgMG == <<"*", "M", "G", "*", "1", "#", "0">>

ImgHashOnly == <<"#", "1">>

CapX == <<" ", "x", " ">>

CapY == <<"y">>

CapZ == <<"z", " ", "w">>

\* shared-string tables
SharedTables ==
  { <<>>,
    << <<Some(ImgA)>>, <<Some(CapX)>> >>,
    << <<None>>, <<Some(ImgA)>>, <<Some(CapY)>> >>,
    << <<Some(ImgB), Some(ImgA)>>, <<Some(CapZ)>> >> }

XlsxRowSet ==
  { <<SharedRef(<<"0">>), SharedRef(<<"1">>)>>,
    <<SharedRef(<<"1">>), Inline(CapX)>>,
    <<SharedRef(<<"5">>), Inline(CapX)>>,
    <<SharedRef(<<"-", "1">>), Inline(CapY)>>,
    <<SharedRef(<<"z">>), Inline(CapY)>>,
    <<Inline(ImgAHash2), Inline(CapX)>>,
    <<Inline(ImgMG), Inline(CapZ)>>,
    <<Inline(ImgHashOnly), Inline(CapY)>>,
    <<ExtElement, Inline(ImgB)>>,
    <<Inline(ImgA), NoValue>> }

CsvHeaders ==
  { <<CaptionId, BengaliCaption>>, <<BengaliCaption, CaptionId>>, <<CaptionId>> }

CsvRowSet ==
  { <<ImgAHash1, CapX>>, <<ImgAHash2, CapY>>, <<ImgB, CapZ>>, <<ImgA>>,
    <<<<>>, CapX>>, <<ImgHashOnly, CapY>> }

JsonItemSet ==
  { JObject(JStr(ImgA), JList(<<JStr(CapX), JStr(CapY)>>)),
    JObject(JStr(ImgA), JStr(CapZ)),
    JObject(JStr(<<" ", "b", " ">>), JList(<<JNull, JStr(CapY)>>)),
    JObject(JStr(ImgB), JList(<<JNull>>)),
    JObject(JStr(ImgB), JInt(<<"7">>)),
    JObject(JInt(<<"5">>), JStr(CapX)),
    JObject(JNull, JStr(CapX)),
    JObjectNoCaption(JStr(ImgA)),
    JNotObject }

\* all sequences over S of length at most n
SeqsUpTo(S, n) == UNION {[1..k -> S] : k \in 0..n}

\* file systems: the image directories that exist and the images in them
AllImageDirs ==
  { Join(BaseDir, DirImage), Join(SubDir, DirImage),
    Join(BaseDir, DirImages), Join(SubDir, DirImages),
    Join(Join(BaseDir, DirFlickr8k), DirFlickr8kImages),
    BanglaViewDir(BaseDir),
    Join(Join(BaseDir, DirBanglaLekha), DirImages) }

DiskOf(dirs, imgs) ==
  Roots \cup dirs \cup {Join(d, n) : d \in Roots \cup dirs, n \in imgs}

DiskSet ==
  { DiskOf({}, {ImgA}),
    DiskOf(AllImageDirs, {ImgA}),
    DiskOf({BanglaViewDir(BaseDir), Join(SubDir, DirImage)}, {ImgA, ImgB}) }

RowDiskSet == { DiskOf({}, {ImgA}), DiskOf(AllImageDirs, {ImgA}) }

HeaderRow == <<Inline(<<"i">>), Inline(<<"c">>)>>

NoRows == <<>>

\* The files of the directory trees walked under Spec, each with the
\* directories it may lie in: one or two of each route, well-formed and
\* failing, and files no route matches.
TreeContents ==
  { <<Roots, NameCaptioning,
      Content("xlsx", "ok", <<>>, <<>>,
              <<HeaderRow, <<Inline(ImgAHash1), Inline(CapX)>> >>)>>,
    <<Roots, NameCaptioning2,
      Content("xlsx", "ok", << <<Some(ImgA)>>, <<Some(CapY)>> >>, <<>>,
              <<HeaderRow, <<SharedRef(<<"0">>), SharedRef(<<"1">>)>>,
                <<Inline(ImgB), Inline(CapZ)>> >>)>>,
    <<{BaseDir}, NameCaptioning, Content("xlsx", "BadZipFile", <<>>, <<>>, NoRows)>>,
    <<{SubDir}, NameCaptioning2, Content("xlsx", "ParseError", <<>>, <<>>, NoRows)>>,
    <<{SubDir}, NameCaptioning, Content("xlsx", "nosheet", <<>>, <<>>, NoRows)>>,
    <<Roots, NameBanCap,
      Content("csv", "ok", <<>>, <<CaptionId, BengaliCaption>>,
              << <<ImgA, CapZ>>, <<ImgAHash2, CapY>> >>)>>,
    <<{BaseDir}, NameBanCap, Content("csv", "FileNotFoundError", <<>>, <<>>, NoRows)>>,
    <<Roots, NameBanglaView,
      Content("xlsx", "ok", <<>>, <<>>, << <<Inline(ImgA), Inline(CapY)>> >>)>>,
    <<Roots, NameCaptionsJson,
      Content("json", "ok", <<>>, <<>>,
              << JObject(JStr(ImgA), JList(<<JStr(CapX), JStr(CapY)>>)) >>)>>,
    <<{BaseDir}, NameCaptionsJson, Content("json", "JSONDecodeError", <<>>, <<>>, NoRows)>>,
    <<{SubDir}, NameCaptionsJson, Content("json", "notlist", <<>>, <<>>, NoRows)>>,
    <<{BaseDir}, NameNotes, Content("other", "ok", <<>>, <<>>, NoRows)>>,
    <<{SubDir}, NameDataXlsx, Content("other", "ok", <<>>, <<>>, NoRows)>>,
    <<{BaseDir}, NameCaptionsCsv, Content("other", "ok", <<>>, <<>>, NoRows)>> }

TreeFiles == UNION {{File(r, nc[2], nc[3]) : r \in nc[1]} : nc \in TreeContents}

\* os.walk lists a directory's files before those of its subdirectories, and
\* a directory holds one file of a name.
IsWalk(w) ==
  /\ \A i, j \in 1..Len(w) :
       i < j => /\ ~(w[i].root = SubDir /\ w[j].root = BaseDir)
                /\ ~(w[i].root = w[j].root /\ w[i].name = w[j].name)

TreeWalks == {w \in UNION {[1..k -> TreeFiles] : k \in 1..MaxFiles} : IsWalk(w)}

\* The single files read under SpecRows: every sequence of at most MaxRows
\* rows (items) of each format; a spreadsheet read with has_header has its
\* header row first, or no row at all.
RowFiles ==
  {File(SubDir, NameBanglaView, Content("xlsx", "ok", sh, <<>>, rs)) :
     sh \in SharedTables, rs \in SeqsUpTo(XlsxRowSet, MaxRows)}
  \cup
  {File(SubDir, NameCaptioning, Content("xlsx", "ok", sh, <<>>, <<HeaderRow>> \o rs)) :
     sh \in SharedTables, rs \in SeqsUpTo(XlsxRowSet, MaxRows - 1)}
  \cup
  {File(SubDir, NameCaptioning, Content("xlsx", "ok", <<>>, <<>>, NoRows))}
  \cup
  {File(SubDir, NameBanCap, Content("csv", "ok", <<>>, h, rs)) :
     h \in CsvHeaders, rs \in SeqsUpTo(CsvRowSet, MaxRows)}
  \cup
  {File(SubDir, NameCaptionsJson, Content("json", "ok", <<>>, <<>>, rs)) :
     rs \in SeqsUpTo(JsonItemSet, MaxRows)}
  \cup
  {File(SubDir, NameNotes, Content("other", "ok", <<>>, <<>>, NoRows))}

\* ------------------------------------------------------------------------
\* State
\* ------------------------------------------------------------------------
VARIABLES
  walk,             \* the files os.walk(base_dir) yields, in order
  disk,             \* the paths that exist
  validate_images,  \* the argument of collect_all_caption_data
  pos,              \* index in walk of the file being visited
  pc,               \* "walk", "rows", "merge", "done" or "crashed"
  all_captions,     \* the consolidated mapping
  captions,         \* the mapping of the file being extracted
  img_dir,          \* the image directory chosen for the file
  shared_strings,   \* the shared strings loaded from the workbook
  row_i,            \* rows (items) of the file passed so far
  img_name,         \* the normalised image name of the last row, or None
  img_path,         \* the image path of the last row, or None
  calls             \* the extract calls made so far

vars ==
  <<walk, disk, validate_images, pos, pc, all_captions, captions, img_dir,
    shared_strings, row_i, img_name, img_path, calls>>

inputs == <<walk, disk, validate_images>>

InitState ==
  /\ pos = 1
  /\ pc = "walk"
  /\ all_captions = EmptyDict
  /\ captions = EmptyDict
  /\ img_dir = <<>>
  /\ shared_strings = <<>>
  /\ row_i = 0
  /\ img_name = None
  /\ img_path = None
  /\ calls = <<>>

Init ==
  /\ walk \in TreeWalks
  /\ disk \in DiskSet
  /\ validate_images \in BOOLEAN
  /\ InitState

InitRows ==
  /\ walk \in {<<f>> : f \in RowFiles}
  /\ disk \in RowDiskSet
  /\ validate_images \in BOOLEAN
  /\ InitState

\* ------------------------------------------------------------------------
\* collect_all_caption_data, one file at a time
\* ------------------------------------------------------------------------
CurFile == walk[pos]

CurRoute == Route(Lower(CurFile.name))

Visiting == pc = "walk" /\ pos <= Len(walk)

\* the parser a route invokes and its has_header setting
ParserOf(route) == IF route = "banglaview" THEN "xlsx" ELSE route

HasHeader(route) == route = "xlsx"

Call(route, images_path) ==
  [file |-> pos, parser |-> ParserOf(route), has_header |-> HasHeader(route),
   images_path |-> images_path]

\* where control goes once the rows up to n are passed
AfterRow(n, rows) == IF n < Len(rows) THEN "rows" ELSE "merge"

\* else: continue
AtUnmatched == Visiting /\ CurRoute = "none"

SkipUnmatched ==
  /\ AtUnmatched
  /\ captions' = EmptyDict
  /\ img_dir' = <<>>
  /\ pos' = pos + 1
  /\ UNCHANGED <<inputs, pc, all_captions, shared_strings, row_i, img_name, img_path, calls>>

\* banglaview_dataset.xlsx without its image directory: continue
AtSkippedBanglaView ==
  Visiting /\ CurRoute = "banglaview" /\ BanglaViewSkipped(BaseDir, disk)

SkipBanglaView ==
  /\ AtSkippedBanglaView
  /\ captions' = EmptyDict
  /\ img_dir' = BanglaViewDir(BaseDir)
  /\ pos' = pos + 1
  /\ UNCHANGED <<inputs, pc, all_captions, shared_strings, row_i, img_name, img_path, calls>>

\* The two spreadsheet routes: choose the image directory, call
\* XLSXCaptionParser.extract, which opens the container, loads the shared
\* strings and finds the rows.
AtXLSX ==
  /\ Visiting
  /\ CurRoute \in {"xlsx", "banglaview"}
  /\ CurRoute = "banglaview" => ~BanglaViewSkipped(BaseDir, disk)

OpenXLSX ==
  /\ AtXLSX
  /\ LET c == CurFile.content
         d == ImgDir(CurRoute, BaseDir, CurFile.root, disk)
     IN /\ img_dir' = d
        /\ calls' = Append(calls, Call(CurRoute, d))
        /\ captions' = EmptyDict
        /\ img_name' = None
        /\ img_path' = None
        /\ IF c.status \in ExceptionClasses
           THEN /\ pc' = IF XLSXCatches(c.status) THEN "merge" ELSE "crashed"
                /\ UNCHANGED <<shared_strings, row_i>>
           ELSE /\ shared_strings' = LoadSharedStrings(c.shared)
                /\ row_i' = StartRow(HasHeader(CurRoute), c.rows)
                /\ pc' = IF c.status = "nosheet" THEN "merge"
                         ELSE AfterRow(StartRow(HasHeader(CurRoute), c.rows), c.rows)
  /\ UNCHANGED <<inputs, pos, all_captions>>

\* The delimited-text route: choose the image directory, call
\* CSVCaptionParser.extract, which opens the file and reads all rows.
AtCSV == Visiting /\ CurRoute = "csv"

OpenCSV ==
  /\ AtCSV
  /\ LET c == CurFile.content
         d == ImgDir(CurRoute, BaseDir, CurFile.root, disk)
     IN /\ img_dir' = d
        /\ calls' = Append(calls, Call(CurRoute, d))
        /\ captions' = EmptyDict
        /\ img_name' = None
        /\ img_path' = None
        /\ row_i' = 0
        /\ pc' = IF c.status \in ExceptionClasses
                 THEN (IF CSVCatches(c.status) THEN "merge" ELSE "crashed")
                 ELSE AfterRow(0, c.rows)
  /\ UNCHANGED <<inputs, pos, all_captions, shared_strings>>

\* The structured-record route: choose the image directory, call
\* JSONCaptionParser.extract, which loads the file and checks its root.
AtJSON == Visiting /\ CurRoute = "json"

OpenJSON ==
  /\ AtJSON
  /\ LET c == CurFile.content
         d == ImgDir(CurRoute, BaseDir, CurFile.root, disk)
     IN /\ img_dir' = d
        /\ calls' = Append(calls, Call(CurRoute, d))
        /\ captions' = EmptyDict
        /\ img_name' = None
        /\ img_path' = None
        /\ row_i' = 0
        /\ pc' = IF c.status \in ExceptionClasses
                 THEN (IF JSONCatches(c.status) THEN "merge" ELSE "crashed")
                 ELSE IF c.status = "notlist" THEN "merge"
                 ELSE AfterRow(0, c.rows)
  /\ UNCHANGED <<inputs, pos, all_captions, shared_strings>>

\* One row of the worksheet
\* the row loop has a next row
InRows == pc = "rows" /\ row_i < Len(CurFile.content.rows)

RowXLSX ==
  /\ InRows
  /\ CurRoute \in {"xlsx", "banglaview"}
  /\ LET row  == CurFile.content.rows[row_i + 1]
         name == XLSXRowName(row, shared_strings)
     IN /\ captions' = XLSXRowStep(captions, row, shared_strings, img_dir,
                                   validate_images, disk)
        /\ img_name' = name
        /\ img_path' = IF name = None THEN None ELSE Some(ImgPath(img_dir, name[1]))
  /\ row_i' = row_i + 1
  /\ pc' = AfterRow(row_i + 1, CurFile.content.rows)
  /\ UNCHANGED <<inputs, pos, all_captions, img_dir, shared_strings, calls>>

\* One row of the CSV file
RowCSV ==
  /\ InRows
  /\ CurRoute = "csv"
  /\ LET c    == CurFile.content
         row  == c.rows[row_i + 1]
         name == CSVRowName(c.header, row)
     IN /\ captions' = CSVRowStep(captions, c.header, row, img_dir, validate_images, disk)
        /\ img_name' = name
        /\ img_path' = IF name = None THEN None ELSE Some(ImgPath(img_dir, name[1]))
  /\ row_i' = row_i + 1
  /\ pc' = AfterRow(row_i + 1, CurFile.content.rows)
  /\ UNCHANGED <<inputs, pos, all_captions, img_dir, shared_strings, calls>>

\* One item of the JSON list; an item that raises ends the extraction with
\* the mapping built so far
RowJSON ==
  /\ InRows
  /\ CurRoute = "json"
  /\ LET item == CurFile.content.rows[row_i + 1]
     IN IF JSONItemRaises(item)
        THEN /\ pc' = IF JSONCatches("AttributeError") THEN "merge" ELSE "crashed"
             /\ UNCHANGED <<captions, img_name, img_path>>
        ELSE /\ captions' = JSONItemStep(captions, item, img_dir, validate_images, disk)
             /\ img_name' = IF JSONItemMalformed(item) THEN None
                            ELSE Some(Strip(item.filename.s))
             /\ img_path' = IF JSONItemMalformed(item) THEN None
                            ELSE Some(JSONItemPath(item, img_dir))
             /\ pc' = AfterRow(row_i + 1, CurFile.content.rows)
  /\ row_i' = row_i + 1
  /\ UNCHANGED <<inputs, pos, all_captions, img_dir, shared_strings, calls>>

\* all_captions.update(captions)
Merge ==
  /\ pc = "merge"
  /\ all_captions' = DictUpdate(all_captions, captions)
  /\ pos' = pos + 1
  /\ pc' = "walk"
  /\ UNCHANGED <<inputs, captions, img_dir, shared_strings, row_i, img_name, img_path, calls>>

\* return all_captions
AtEnd == pc = "walk" /\ pos > Len(walk)

Finish ==
  /\ AtEnd
  /\ pc' = "done"
  /\ UNCHANGED <<inputs, pos, all_captions, captions, img_dir, shared_strings, row_i,
                 img_name, img_path, calls>>

Next ==
  \/ SkipUnmatched
  \/ SkipBanglaView
  \/ OpenXLSX
  \/ OpenCSV
  \/ OpenJSON
  \/ RowXLSX
  \/ RowCSV
  \/ RowJSON
  \/ Merge
  \/ Finish

Spec == Init /\ [][Next]_vars

SpecRows == InitRows /\ [][Next]_vars

\* ------------------------------------------------------------------------
\* extract as a function of its arguments: the mapping a whole call returns
\* ------------------------------------------------------------------------
RECURSIVE XLSXFold(_, _, _, _, _, _, _)
XLSXFold(caption_mapping, rows, i, shared, images_path, validate, fs) ==
  IF i > Len(rows) THEN caption_mapping
  ELSE XLSXFold(XLSXRowStep(caption_mapping, rows[i], shared, images_path, validate, fs),
                rows, i + 1, shared, images_path, validate, fs)

\* XLSXCaptionParser(has_header).extract(file, images_path, validate_images)
XLSXExtract(content, has_header, images_path, validate, fs) ==
  IF content.status # "ok" THEN EmptyDict
  ELSE XLSXFold(EmptyDict, content.rows, StartRow(has_header, content.rows) + 1,
                LoadSharedStrings(content.shared), images_path, validate, fs)

RECURSIVE CSVFold(_, _, _, _, _, _, _)
CSVFold(caption_mapping, header, rows, i, images_path, validate, fs) ==
  IF i > Len(rows) THEN caption_mapping
  ELSE CSVFold(CSVRowStep(caption_mapping, header, rows[i], images_path, validate, fs),
               header, rows, i + 1, images_path, validate, fs)

\* CSVCaptionParser().extract(file, images_path, validate_images)
CSVExtract(content, images_path, validate, fs) ==
  IF content.status # "ok" THEN EmptyDict
  ELSE CSVFold(EmptyDict, content.header, content.rows, 1, images_path, validate, fs)

RECURSIVE JSONFold(_, _, _, _, _, _)
JSONFold(caption_mapping, items, i, images_path, validate, fs) ==
  IF i > Len(items) \/ JSONItemRaises(items[i]) THEN caption_mapping
  ELSE JSONFold(JSONItemStep(caption_mapping, items[i], images_path, validate, fs),
                items, i + 1, images_path, validate, fs)

\* JSONCaptionParser().extract(file, images_path, validate_images)
JSONExtract(content, images_path, validate, fs) ==
  IF content.status # "ok" THEN EmptyDict
  ELSE JSONFold(EmptyDict, content.rows, 1, images_path, validate, fs)

\* The mapping the call made for walked file f returns
ExtractFile(f, validate, fs) ==
  LET route == Route(Lower(f.name))
      d     == ImgDir(route, BaseDir, f.root, fs)
  IN CASE route \in {"xlsx", "banglaview"} ->
            XLSXExtract(f.content, HasHeader(route), d, validate, fs)
       [] route = "csv" -> CSVExtract(f.content, d, validate, fs)
       [] route = "json" -> JSONExtract(f.content, d, validate, fs)
       [] OTHER -> EmptyDict

\* ------------------------------------------------------------------------
\* Properties
\* ------------------------------------------------------------------------
\* the mapping returned by the n-th extract call made so far
Returned(n) == ExtractFile(walk[calls[n].file], validate_images, disk)

\* every call made so far has been merged
AllMerged == pc \in {"walk", "done"}

\* the calls made so far whose returned mapping has key k
CallsWithKey(k) == {n \in 1..Len(calls) : k \in DOMAIN Returned(n)}

LastCallWithKey(k) == CHOOSE n \in CallsWithKey(k) : \A m \in CallsWithKey(k) : m <= n

\* C1: merge law of collect_all_caption_data. Once the files visited so far
\* are merged, the consolidated mapping holds exactly the keys of the
\* per-file mappings, and the value of each key is the whole value given by
\* the last-processed file that has the key (never a concatenation with an
\* earlier file's value); a key of one file only keeps that file's value.
C1_MergeLaw ==
  AllMerged =>
    /\ DOMAIN all_captions = UNION {DOMAIN Returned(n) : n \in 1..Len(calls)}
    /\ \A k \in DOMAIN all_captions :
         all_captions[k] = Returned(LastCallWithKey(k))[k]

\* Two files with a common key and different values for it were merged, and
\* the later one's value stands.
C1_Witness ==
  /\ pc = "done"
  /\ Len(calls) = 2
  /\ \E k \in DOMAIN Returned(1) \cap DOMAIN Returned(2) :
       /\ Returned(1)[k] # Returned(2)[k]
       /\ all_captions[k] = Returned(2)[k]

\* the file being extracted and the mapping a call with the given
\* validate_images returns for it
CurExtract(validate) == ExtractFile(CurFile, validate, disk)

\* C2: validate_images=False yields a superset, by key, of what
\* validate_images=True yields on the same file, image root and file system.
\* The mapping the extraction just returned (under the validate_images of
\* this run) is compared with the mapping under the opposite setting.
C2_ValidateSuperset ==
  pc = "merge" =>
    /\ captions = CurExtract(validate_images)
    /\ validate_images => DOMAIN captions \subseteq DOMAIN CurExtract(FALSE)
    /\ ~validate_images => DOMAIN CurExtract(TRUE) \subseteq DOMAIN captions

\* A validated extraction returned some keys and dropped others that the
\* unvalidated extraction keeps.
C2_Witness ==
  /\ pc = "merge"
  /\ validate_images
  /\ captions # EmptyDict
  /\ DOMAIN captions # DOMAIN CurExtract(FALSE)

\* the walked file at index i is handed to an extractor
Extracted(i) ==
  LET route == Route(Lower(walk[i].name))
  IN route # "none" /\ ~(route = "banglaview" /\ BanglaViewSkipped(BaseDir, disk))

\* the extractor cannot parse the walked file at index i: invalid zip
\* container, missing worksheet, XML or JSON decode error, non-list JSON
\* root, file not found
FailsToParse(i) == Extracted(i) /\ walk[i].content.status # "ok"

\* some step of the walk can be taken: the guard of one of its actions holds
CanStep ==
  \/ AtUnmatched \/ AtSkippedBanglaView \/ AtXLSX \/ AtCSV \/ AtJSON
  \/ (InRows /\ CurRoute \in {"xlsx", "banglaview", "csv", "json"})
  \/ pc = "merge"
  \/ AtEnd

\* C3: failure containment across files. No parse failure leaves extract
\* (the walk never crashes), the walk can always take its next step until it
\* has returned, and once it has returned every file after a failing file
\* has been visited, and each such file that is handed to an extractor was
\* extracted (one call for it) and its keys are in the consolidated mapping.
C3_FailureContained ==
  /\ pc # "crashed"
  /\ pc # "done" => CanStep
  /\ pc = "done" =>
       /\ pos = Len(walk) + 1
       /\ \A i, j \in 1..Len(walk) :
            (i < j /\ FailsToParse(i) /\ Extracted(j)) =>
              /\ Cardinality({n \in 1..Len(calls) : calls[n].file = j}) = 1
              /\ DOMAIN ExtractFile(walk[j], validate_images, disk)
                   \subseteq DOMAIN all_captions

\* The walk returned after a file that failed to parse and a later file
\* whose captions were extracted and merged.
C3_Witness ==
  /\ pc = "done"
  /\ \E i, j \in 1..Len(walk) :
       /\ i < j
       /\ FailsToParse(i)
       /\ walk[i].content.status \in {"ParseError", "JSONDecodeError", "FileNotFoundError"}
       /\ Extracted(j)
       /\ ExtractFile(walk[j], validate_images, disk) # EmptyDict
       /\ DOMAIN ExtractFile(walk[j], validate_images, disk) \subseteq DOMAIN all_captions

\* ---- rows of the file being extracted ----
CurRows == CurFile.content.rows

\* the extract call in progress (or just returned): the last one made
CurCall == calls[Len(calls)]

Extracting == pc \in {"rows", "merge"}

InXLSX == Extracting /\ CurCall.parser = "xlsx"

InCSV == Extracting /\ CurCall.parser = "csv"

InJSON == Extracting /\ CurCall.parser = "json"

\* index of the first row the loop passes
FirstRow == IF InXLSX THEN StartRow(CurCall.has_header, CurRows) + 1 ELSE 1

\* an extraction pass over a readable file is under way or just over
InPass == Extracting /\ CurFile.content.status = "ok"

\* the loop body has just passed row CurRows[row_i]
RowPassed == InPass /\ row_i >= FirstRow

\* the raw image name of row r, as read from the file (None when missing)
RawName(r) ==
  IF InXLSX
  THEN (IF Len(RowCells(r)) < 2 THEN None
        ELSE GetCellValue(RowCells(r)[1], shared_strings))
  ELSE DictReaderGet(CurFile.content.header, r, CaptionId)

\* the raw caption of row r (None when missing)
RawCaption(r) ==
  IF InXLSX
  THEN (IF Len(RowCells(r)) < 2 THEN None
        ELSE GetCellValue(RowCells(r)[2], shared_strings))
  ELSE DictReaderGet(CurFile.content.header, r, BengaliCaption)

IsText(v) == v.ty = "str"

\* a well-formed row or record: its required fields are present, non-empty
\* and of the expected type
WellFormed(r) ==
  IF InJSON
  THEN /\ r.isdict
       /\ r.keys = {"filename", "caption"}
       /\ IsText(r.filename)
       /\ \/ IsText(r.caption)
          \/ r.caption.ty = "list" /\ \E n \in 1..Len(r.caption.l) : IsText(r.caption.l[n])
  ELSE /\ Truthy(RawName(r))
       /\ Truthy(RawCaption(r))

\* the key a well-formed row or record contributes to
KeyOf(r) ==
  IF InJSON THEN Join(img_dir, Strip(r.filename.s))
  ELSE IF InXLSX THEN ImgPath(img_dir, XLSXNormalizeName(RawName(r)[1]))
  ELSE ImgPath(img_dir, CSVNormalizeName(RawName(r)[1]))

\* C4: a per-row/record anomaly never aborts the whole file. When an
\* extraction without image validation has returned, every well-formed row
\* or record of the file has its key in the returned mapping, whatever
\* anomalous rows or records come before it.
C4_RowAnomalyContained ==
  (pc = "merge" /\ CurFile.content.status = "ok" /\ ~validate_images) =>
    \A i \in FirstRow..Len(CurRows) :
      WellFormed(CurRows[i]) => KeyOf(CurRows[i]) \in DOMAIN captions

\* ---- shared strings ----
RECURSIVE ConcatTexts(_)
ConcatTexts(ts) ==
  IF ts = <<>> THEN <<>>
  ELSE (IF Head(ts) = None THEN <<>> ELSE Head(ts)[1]) \o ConcatTexts(Tail(ts))

\* the workbook's shared-string entry at position i, counted from 0
WorkbookEntry(table, i) == ConcatTexts(table[i + 1])

\* the first cell of row r is a shared-string reference with some content
FirstCellIsSharedRef(r) ==
  /\ Len(RowCells(r)) >= 2
  /\ RowCells(r)[1].t = Some(<<"s">>)
  /\ Truthy(RowCells(r)[1].v)

\* C5: shared-string dereferencing. After a row whose first cell is a
\* shared-string reference with content i, the image name is the (normalised)
\* entry at position i of the workbook's shared-string table when
\* 0 <= i < table length, and no name at all when i is out of range,
\* negative or not a number.
C5_SharedStringDeref ==
  (RowPassed /\ InXLSX /\ FirstCellIsSharedRef(CurRows[row_i])) =>
    LET table == CurFile.content.shared
        idx   == ParseInt(CurRows[row_i][1].v[1])
    IN IF idx # None /\ 0 <= idx[1] /\ idx[1] < Len(table)
       THEN img_name = IF WorkbookEntry(table, idx[1]) = <<>> THEN None
                       ELSE Some(XLSXNormalizeName(WorkbookEntry(table, idx[1])))
       ELSE img_name = None

\* ---- image names ----
\* the substring of raw before its first "#"
BeforeFirstHash(raw) ==
  LET i == CHOOSE k \in 1..Len(raw) :
             raw[k] = "#" /\ \A m \in 1..(k - 1) : raw[m] # "#"
  IN SubSeq(raw, 1, i - 1)

HasHash(raw) == \E k \in 1..Len(raw) : raw[k] = "#"

\* the last row passed was used and its raw image name has a "#"
HashRowPassed ==
  /\ RowPassed
  /\ InXLSX \/ InCSV
  /\ img_name # None
  /\ HasHash(RawName(CurRows[row_i])[1])

\* C6 as stated: in both extractors the name used to build the image path
\* is the substring of the raw name before the first "#".
C6_NameIsPrefixBeforeHash ==
  HashRowPassed =>
    /\ img_name = Some(BeforeFirstHash(RawName(CurRows[row_i])[1]))
    /\ img_path = Some(ImgPath(img_dir, BeforeFirstHash(RawName(CurRows[row_i])[1])))

\* what the spreadsheet extractor makes of the prefix: every "*MG*" in it
\* becomes "IMG_"
ExpectedName(raw) ==
  IF InXLSX THEN Replace(BeforeFirstHash(raw), Placeholder, CanonicalPrefix)
  ELSE BeforeFirstHash(raw)

\* C6 amended: the name used to build the image path is the substring of the
\* raw name before the first "#"; in the spreadsheet extractor every
\* occurrence of "*MG*" in that substring is then replaced by "IMG_".
C6_NameIsNormalizedPrefix ==
  HashRowPassed =>
    /\ img_name = Some(ExpectedName(RawName(CurRows[row_i])[1]))
    /\ img_path = Some(ImgPath(img_dir, ExpectedName(RawName(CurRows[row_i])[1])))

\* Two rows whose raw names differ after the "#" were passed and their
\* captions lie under one key.
C6_Witness ==
  /\ HashRowPassed
  /\ row_i >= FirstRow + 1
  /\ RawName(CurRows[row_i - 1]) # None
  /\ HasHash(RawName(CurRows[row_i - 1])[1])
  /\ RawName(CurRows[row_i - 1]) # RawName(CurRows[row_i])
  /\ img_path[1] \in DOMAIN captions
  /\ Len(captions[img_path[1]]) = 2

\* ---- dispatch ----
\* the four route conditions on the lower-cased file name, in order
RouteMatches(r, n) ==
  CASE r = 1 -> EndsWith(n, <<".", "x", "l", "s", "x">>) /\ Contains(n, WordCaptioning)
    [] r = 2 -> EndsWith(n, <<".", "c", "s", "v">>) /\ Contains(n, WordBanCap)
    [] r = 3 -> n = BanglaViewName
    [] r = 4 -> EndsWith(n, <<".", "j", "s", "o", "n">>) /\ Contains(n, WordCaptions)

RoutesMatching(n) == {r \in 1..4 : RouteMatches(r, n)}

FirstMatching(n) == CHOOSE r \in RoutesMatching(n) : \A q \in RoutesMatching(n) : r <= q

\* the extractor of each route: parser and header setting
ExtractorOf(r) ==
  CASE r = 1 -> <<"xlsx", TRUE>>
    [] r = 2 -> <<"csv", FALSE>>
    [] r = 3 -> <<"xlsx", FALSE>>
    [] r = 4 -> <<"json", FALSE>>

C7_Step ==
  IF Visiting
  THEN LET m == RoutesMatching(Lower(CurFile.name))
       IN /\ \A n \in 1..Len(calls) : calls[n].file < pos
          /\ m = {} => /\ calls' = calls
                       /\ all_captions' = all_captions
                       /\ pos' = pos + 1
          /\ m # {} =>
               \/ calls' = calls
               \/ /\ Len(calls') = Len(calls) + 1
                  /\ SubSeq(calls', 1, Len(calls)) = calls
                  /\ calls'[Len(calls')].file = pos
                  /\ <<calls'[Len(calls')].parser, calls'[Len(calls')].has_header>>
                       = ExtractorOf(FirstMatching(Lower(CurFile.name)))
  ELSE calls' = calls

\* C7: dispatch classification. Visiting a file either invokes no extractor
\* or exactly one, that of the first route (in the order .xlsx+captioning,
\* .csv+ban-cap, banglaview_dataset.xlsx, .json+captions) its lower-cased
\* name matches; no other step invokes an extractor, so a file gets at most
\* one call; a file matching no route invokes none and leaves the
\* consolidated mapping unchanged.
C7_Dispatch == [][C7_Step]_vars

\* The walk returned having passed a file that matches no route without a
\* call and having extracted another file.
C7_Witness ==
  /\ pc = "done"
  /\ \E i \in 1..Len(walk) : RoutesMatching(Lower(walk[i].name)) = {}
  /\ Len(calls) >= 1
  /\ Len(calls) < Len(walk)
  /\ all_captions # EmptyDict

\* ---- the fixed-name route ----
Flickr30kDir ==
  BaseDir \o <<"/">> \o DirFlickr30k \o <<"/">> \o DirFlickr30k

\* walked file i is banglaview_dataset.xlsx (in any case) and its image
\* directory does not exist
BanglaViewWithoutDir(i) ==
  Lower(walk[i].name) = BanglaViewName /\ Flickr30kDir \notin disk

C8_Step ==
  /\ (Visiting /\ BanglaViewWithoutDir(pos)) =>
       /\ calls' = calls
       /\ all_captions' = all_captions
       /\ pos' = pos + 1
       /\ pc' = "walk"
  /\ pc' = "done" =>
       \A i, j \in 1..Len(walk) :
         (i < j /\ BanglaViewWithoutDir(i) /\ Extracted(j)) =>
           \E n \in 1..Len(calls') : calls'[n].file = j

\* C8: fixed-name route without its image directory. Visiting
\* banglaview_dataset.xlsx while <base_dir>/flickr30k_images/flickr30k_images
\* does not exist invokes no extractor and leaves the consolidated mapping
\* unchanged, the walk goes on to the next file, and when the walk returns
\* every later file that is handed to an extractor has had its call.
C8_FixedNameSkipped == [][C8_Step]_vars

\* The walk returned after skipping banglaview_dataset.xlsx for want of its
\* image directory and extracting a later file.
C8_Witness ==
  /\ pc = "done"
  /\ all_captions # EmptyDict
  /\ \E i, j \in 1..Len(walk) :
       /\ i < j
       /\ BanglaViewWithoutDir(i)
       /\ \A n \in 1..Len(calls) : calls[n].file # i
       /\ \E n \in 1..Len(calls) : calls[n].file = j

\* ---- accumulation within one pass ----
\* row r adds a caption: its fields are present and its image passes
\* validation
Contributes(r) ==
  WellFormed(r) /\ (~validate_images \/ PathExists(disk, KeyOf(r)))

FormattedOf(r) ==
  IF InXLSX THEN XLSXFormat(RawCaption(r)[1]) ELSE CSVFormat(RawCaption(r)[1])

\* the formatted captions of the rows up to row i that contribute to key k,
\* in row order
RECURSIVE CaptionsUpTo(_, _)
CaptionsUpTo(k, i) ==
  IF i < FirstRow THEN <<>>
  ELSE CaptionsUpTo(k, i - 1)
         \o (IF Contributes(CurRows[i]) /\ KeyOf(CurRows[i]) = k
             THEN <<FormattedOf(CurRows[i])>> ELSE <<>>)

\* C9: within one pass of the spreadsheet or the delimited-text extractor,
\* after any number of rows the caption sequence of every key lists the
\* formatted captions of all rows passed so far that contribute to the key,
\* in row order; so each row can only append at the end, never remove or
\* replace what earlier rows added.
C9_AppendOnly ==
  (InPass /\ (InXLSX \/ InCSV)) =>
    /\ DOMAIN captions =
         {KeyOf(CurRows[i]) : i \in {n \in FirstRow..row_i : Contributes(CurRows[n])}}
    /\ \A k \in DOMAIN captions : captions[k] = CaptionsUpTo(k, row_i)

\* A pass ended with a key that two rows appended to.
C9_Witness ==
  /\ pc = "merge"
  /\ InXLSX \/ InCSV
  /\ CurFile.content.status = "ok"
  /\ \E k \in DOMAIN captions :
       /\ Len(captions[k]) = 2
       /\ captions[k][1] # captions[k][2]

\* ---- spreadsheet row policy ----
\* the row has fewer than two cells, or no image name, or no caption
Incomplete(r) ==
  \/ Cardinality({n \in 1..Len(r) : r[n].tag[Len(r[n].tag)] = "c"}) < 2
  \/ ~Truthy(RawName(r))
  \/ ~Truthy(RawCaption(r))

IsSpaces(s) == \A n \in 1..Len(s) : s[n] \in {" ", "\t", "\n"}

\* body is text with the white space at both ends removed
IsTrimOf(body, text) ==
  /\ body = <<>> \/ (~IsSpaces(<<body[1]>>) /\ ~IsSpaces(<<body[Len(body)]>>))
  /\ \E a, b \in 0..Len(text) :
       /\ a + Len(body) + b = Len(text)
       /\ IsSpaces(SubSeq(text, 1, a))
       /\ SubSeq(text, a + 1, a + Len(body)) = body
       /\ IsSpaces(SubSeq(text, a + Len(body) + 1, Len(text)))

\* c is "<start> " + body + " <end>" for some trimmed body
HasSpreadsheetForm(c) ==
  LET open  == <<"<", "s", "t", "a", "r", "t", ">", " ">>
      close == <<" ", "<", "e", "n", "d", ">">>
  IN /\ Len(c) >= Len(open) + Len(close)
     /\ SubSeq(c, 1, Len(open)) = open
     /\ SubSeq(c, Len(c) - Len(close) + 1, Len(c)) = close
     /\ LET body == SubSeq(c, Len(open) + 1, Len(c) - Len(close))
        IN IsTrimOf(body, body)

C10_Step ==
  (InRows /\ InXLSX) =>
    LET r == CurRows[row_i + 1]
    IN /\ Incomplete(r) => captions' = captions
       /\ \A k \in DOMAIN captions' :
            /\ captions'[k] # <<>>
            /\ \A n \in 1..Len(captions'[k]) : HasSpreadsheetForm(captions'[k][n])
       /\ captions' # captions =>
            LET c    == captions'[img_path'[1]][Len(captions'[img_path'[1]])]
                body == SubSeq(c, Len(StartTag) + 2, Len(c) - Len(EndTag) - 1)
            IN IsTrimOf(body, RawCaption(r)[1])

\* C10: spreadsheet row policy. A row after the optional header with fewer
\* than two cells, without an image name or without a caption leaves the
\* mapping unchanged; after every row no key of the mapping has an empty
\* caption sequence, every caption has the form "<start> {text} <end>" with
\* text trimmed, and the caption a row adds carries that row's trimmed
\* caption.
C10_RowPolicy == [][C10_Step]_vars

\* A pass ended that skipped an incomplete row and took a caption from a
\* complete one.
C10_Witness ==
  /\ pc = "merge"
  /\ InXLSX
  /\ CurFile.content.status = "ok"
  /\ captions # EmptyDict
  /\ \E i \in FirstRow..Len(CurRows) : Incomplete(CurRows[i])
  /\ \E i \in FirstRow..Len(CurRows) : ~Incomplete(CurRows[i])

\* ---- structured records ----
\* text with the white space at both ends removed
TrimOf(text) ==
  CHOOSE body \in {SubSeq(text, i, j) : i \in 1..(Len(text) + 1), j \in 0..Len(text)} :
    IsTrimOf(body, text)

\* the caption field of record r as a sequence, its null entries left out
NonNullCaptions(r) ==
  LET listed == IF r.caption.ty = "list" THEN r.caption.l ELSE <<r.caption>>
      RECURSIVE Keep(_)
      Keep(q) == IF q = <<>> THEN <<>>
                 ELSE (IF Head(q).ty = "null" THEN <<>> ELSE <<Head(q)>>) \o Keep(Tail(q))
  IN Keep(listed)

\* the key record r is stored under
RecordKey(r) == Join(img_dir, TrimOf(r.filename.s))

\* record r gives an entry: it has both fields and a text filename, its
\* image passes validation, and it has a non-null caption
RecordKept(r) ==
  /\ r.isdict
  /\ {"filename", "caption"} \subseteq r.keys
  /\ r.filename.ty = "str"
  /\ ~validate_images \/ PathExists(disk, RecordKey(r))
  /\ NonNullCaptions(r) # <<>>

\* "<start>" + trimmed caption + " "
RecordCaption(c) == <<"<", "s", "t", "a", "r", "t", ">">> \o TrimOf(c.s) \o <<" ">>

C11_Step ==
  (InRows /\ InJSON) =>
    LET r == CurRows[row_i + 1]
    IN IF RecordKept(r)
       THEN /\ DOMAIN captions' = DOMAIN captions \cup {RecordKey(r)}
            /\ \A k \in DOMAIN captions \ {RecordKey(r)} : captions'[k] = captions[k]
            /\ captions'[RecordKey(r)] =
                 [n \in 1..Len(NonNullCaptions(r)) |-> RecordCaption(NonNullCaptions(r)[n])]
       ELSE captions' = captions

\* C11: structured-record extractor. A record gives an entry only if
\* validation is off or join(image_root, trimmed filename) exists, and at
\* least one non-null caption remains once the caption field is taken as a
\* sequence; the key's value then becomes exactly that record's captions,
\* each "<start>{trimmed caption} ", in order, in place of whatever an
\* earlier record of the file gave the key; any other record leaves the
\* mapping unchanged.
C11_RecordPolicy == [][C11_Step]_vars

\* A pass ended in which a later record replaced the captions an earlier
\* record gave the same key.
C11_Witness ==
  /\ pc = "merge"
  /\ InJSON
  /\ CurFile.content.status = "ok"
  /\ Len(CurRows) = 2
  /\ RecordKept(CurRows[1])
  /\ RecordKept(CurRows[2])
  /\ RecordKey(CurRows[1]) = RecordKey(CurRows[2])
  /\ Len(NonNullCaptions(CurRows[1])) = 2
  /\ captions[RecordKey(CurRows[2])] = <<RecordCaption(CurRows[2].caption)>>

\* ---- keys of the row extractors ----
\* key k is image directory d joined with a non-empty name
IsNamedKey(k, d) ==
  /\ Len(k) > Len(d) + 1
  /\ k = Join(d, SubSeq(k, Len(d) + 2, Len(k)))

\* C12: with validate_images = False every key of the mapping built by
\* the spreadsheet extractor or the delimited-text extractor is image_root
\* joined with a non-empty normalized image name; no row, one whose raw
\* name begins with '#' included, gives an entry keyed by the bare
\* image_root or by the empty string.
C12_KeysHaveNames ==
  (InPass /\ (InXLSX \/ InCSV) /\ ~validate_images) =>
    \A k \in DOMAIN captions : IsNamedKey(k, img_dir)

====
